---- MODULE Spec2Model ----
(***************************************************************************)
(* A model of the baseball repository: the Player peak finder and its      *)
(* cached peak (src/src/players.py), the batch summarizer                  *)
(* (src/src/gather_player_peaks.py) and the three-dice roll-value          *)
(* distribution (src/src/dice.py).                                         *)
(*                                                                         *)
(* Conventions.  A Python value that may be absent is a sequence of length *)
(* 0 or 1: <<>> is None and <<x>> is x.  The outcome of a call is a record *)
(* [exc, val]: exc = "" and val = <<x>> when the call returns x, and       *)
(* exc = the exception's name and val = <<>> when it raises.  Array        *)
(* positions are 0-based as in the source; statistics are integers (a      *)
(* fractional statistic such as WAR is counted in its smallest unit).      *)
(***************************************************************************)
EXTENDS Integers, Sequences, FiniteSets

VARIABLES
    player_stats,   \* Player.player_stats: [columns, rows], the DataFrame
    peak_info,      \* Player._peak_info: <<>> or <<the cached peak dict>>
    call,           \* the last method called on the player, with its arguments
    ret,            \* the outcome of that call
    pc,             \* "call": the call is about to run; "done": it has returned or raised
    \* load_player_peaks (gather_player_peaks.py)
    remote,         \* what the statistics service returns for each year
    args,           \* [start_year, end_year, dur, category]
    year,           \* the loop variable of the loader
    stats_by_year,  \* the tables loaded so far
    stats,          \* the concatenated table
    candidates,     \* the names kept, in order
    players,        \* the Player objects built so far
    rows,           \* the summary records built so far
    bpc,            \* where load_player_peaks is
    \* get_roll_value_probs (dice.py)
    microstates,
    macrostates,
    roll_value_prob_map,
    dpc             \* where get_roll_value_probs is

playerVars == <<player_stats, peak_info, call, ret, pc>>

batchVars == <<remote, args, year, stats_by_year, stats, candidates, players, rows, bpc>>

diceVars == <<microstates, macrostates, roll_value_prob_map, dpc>>

vars == <<playerVars, batchVars, diceVars>>

-----------------------------------------------------------------------------
(* Bounds of the model *)

MaxLen == 3     \* most season records of one player
MaxVal == 1     \* largest value of a statistic in one season

Years == 1 .. (MaxLen + 1)      \* season values; one more than MaxLen, so gaps occur
Vals == 0 .. MaxVal

-----------------------------------------------------------------------------
(* Python outcomes *)

NoDur == <<>>

Return(x) == [exc |-> "", val |-> <<x>>]

Raise(e) == [exc |-> e, val |-> <<>>]

ReturnNone == [exc |-> "", val |-> <<>>]

Pending == [exc |-> "pending", val |-> <<>>]     \* no outcome yet

Raised(o) == o.exc /= ""

-----------------------------------------------------------------------------
(* numpy and pandas primitives used by players.py *)

Range(f) == {f[i] : i \in DOMAIN f}

RECURSIVE Sum(_)
Sum(s) == IF s = <<>> THEN 0 ELSE Head(s) + Sum(Tail(s))

\* np.ones(dur, dtype=int) for an integer dur >= 0
Ones(dur) == [i \in 1 .. dur |-> 1]

\* np.convolve(a, v, "valid") of two non-empty arrays: numpy swaps the
\* arguments when v is the longer one, and the result has
\* max(len) - min(len) + 1 entries.
Convolve(a, v) ==
    LET long == IF Len(v) > Len(a) THEN v ELSE a
        short == IF Len(v) > Len(a) THEN a ELSE v
        m == Len(short)
    IN  [k \in 1 .. (Len(long) - m + 1) |->
            Sum([j \in 1 .. m |-> long[k + j - 1] * short[m - j + 1]])]

\* np.max of a non-empty array
RECURSIVE ArrayMax(_)
ArrayMax(w) ==
    IF Len(w) = 1 THEN w[1]
    ELSE LET rest == ArrayMax(Tail(w))
         IN  IF w[1] >= rest THEN w[1] ELSE rest

\* np.argmax of a non-empty array: the 0-based position of the first maximum
RECURSIVE ArgMaxFrom(_, _, _)
ArgMaxFrom(w, i, best) ==
    IF i > Len(w) THEN best - 1
    ELSE ArgMaxFrom(w, i + 1, IF w[i] > w[best] THEN i ELSE best)

\* A faulty argmax: the position of the last maximum
RECURSIVE ArgMaxLastFrom(_, _, _)
ArgMaxLastFrom(w, i, best) ==
    IF i > Len(w) THEN best - 1
    ELSE ArgMaxLastFrom(w, i + 1, IF w[i] >= w[best] THEN i ELSE best)

ArgMax_Last(w) == ArgMaxLastFrom(w, 2, 1)

ArgMax(w) == ArgMaxFrom(w, 2, 1)

\* A faulty indexing: a position past the end is clamped to the last entry
Index_Clamped(arr, i) ==
    IF arr = <<>> THEN Raise("IndexError")
    ELSE IF i >= Len(arr) THEN Return(arr[Len(arr)])
    ELSE IF i >= 0 THEN Return(arr[i + 1])
    ELSE IF -i <= Len(arr) THEN Return(arr[Len(arr) + i + 1])
    ELSE Raise("IndexError")

\* arr[i] with a 0-based, possibly negative, Python index
Index(arr, i) ==
    IF 0 <= i /\ i < Len(arr) THEN Return(arr[i + 1])
    ELSE IF i < 0 /\ -i <= Len(arr) THEN Return(arr[Len(arr) + i + 1])
    ELSE Raise("IndexError")

IsAscending(recs) ==
    \A i \in 1 .. Len(recs) - 1 : recs[i].Season <= recs[i + 1].Season

\* the records without the i-th
Drop(recs, i) == SubSeq(recs, 1, i - 1) \o SubSeq(recs, i + 1, Len(recs))

\* A faulty sort: the records are left in the order given
SortValues_Unsorted(recs) == {recs}

\* DataFrame.sort_values(by="Season"): the records in ascending season order.
\* The default sort is not stable, so records of equal season may come out in
\* any order: the set of all orders the sort can produce (one order when
\* no season occurs twice).
RECURSIVE SortValues(_)
SortValues(recs) ==
    IF recs = <<>> THEN {<<>>}
    ELSE UNION {{<<recs[i]>> \o rest : rest \in SortValues(Drop(recs, i))} :
                   i \in {k \in 1 .. Len(recs) :
                             \A j \in 1 .. Len(recs) : recs[k].Season <= recs[j].Season}}

Column(recs, c) == [i \in 1 .. Len(recs) |-> recs[i][c]]

-----------------------------------------------------------------------------
(* class Player *)

\* A faulty dict: the end year by year arithmetic, start year + dur - 1
StretchInfo_YearArithmetic(data, dur, stat) ==
    LET stat_vals == Column(data, stat)
        season_vals == Column(data, "Season")
        windowed_stat_vals == Convolve(stat_vals, Ones(dur))
        windowed_max_loc == ArgMax(windowed_stat_vals)
        windowed_max_val == ArrayMax(windowed_stat_vals)
        start == Index(season_vals, windowed_max_loc)
        end == Index(season_vals, windowed_max_loc + dur - 1)
    IN  IF Raised(start) THEN start
        ELSE IF Raised(end) THEN end
        ELSE Return([stretch_duration |-> dur,
                     stretch_stat |-> stat,
                     stretch_value |-> windowed_max_val,
                     stretch_start_year |-> start.val[1],
                     stretch_end_year |-> start.val[1] + dur - 1])

\* The dict built at the end of _peak_stretch_info from the sorted data
StretchInfo(data, dur, stat) ==
    LET stat_vals == Column(data, stat)
        season_vals == Column(data, "Season")
        windowed_stat_vals == Convolve(stat_vals, Ones(dur))
        windowed_max_loc == ArgMax(windowed_stat_vals)
        windowed_max_val == ArrayMax(windowed_stat_vals)
        start == Index(season_vals, windowed_max_loc)
        end == Index(season_vals, windowed_max_loc + dur - 1)
    IN  IF Raised(start) THEN start
        ELSE IF Raised(end) THEN end
        ELSE Return([stretch_duration |-> dur,
                     stretch_stat |-> stat,
                     stretch_value |-> windowed_max_val,
                     stretch_start_year |-> start.val[1],
                     stretch_end_year |-> end.val[1]])

\* Player._peak_stretch_info(dur, stat): the set of outcomes (one per order
\* the sort can produce).  dur is <<>> (None) or <<d>>.
peak_stretch_info(df, dur, stat) ==
    IF stat \notin df.columns THEN {Raise("KeyError")}
    ELSE IF dur = NoDur THEN {Raise("TypeError")}           \* np.ones(None) / loc + None - 1
    ELSE IF dur[1] < 0 THEN {Raise("ValueError")}           \* np.ones: negative dimensions
    ELSE IF dur[1] = 0 \/ df.rows = <<>> THEN {Raise("ValueError")}  \* np.convolve: empty array
    ELSE {StretchInfo(data, dur[1], stat) : data \in SortValues(df.rows)}

\* Player.set_peak(dur, stat): the outcomes [ret, peak_info'] of the call
set_peak(info, df, dur, stat) ==
    {IF Raised(o) THEN [ret |-> o, peak_info |-> info]
     ELSE [ret |-> ReturnNone, peak_info |-> <<o.val[1]>>] :
        o \in peak_stretch_info(df, dur, stat)}

Field(o, f) == IF Raised(o) THEN o ELSE Return(o.val[1][f])

\* A faulty peak_value: the cached peak is never used
peak_value_Recomputed(info, df, dur, stat) ==
    {Field(o, "stretch_value") : o \in peak_stretch_info(df, dur, stat)}

\* Player.peak_value(dur, stat)
peak_value(info, df, dur, stat) ==
    IF info /= <<>> /\ dur = NoDur THEN {Return(info[1].stretch_value)}
    ELSE {Field(o, "stretch_value") : o \in peak_stretch_info(df, dur, stat)}

\* Player.peak_start_year(dur, stat)
peak_start_year(info, df, dur, stat) ==
    IF info /= <<>> /\ dur = NoDur THEN {Return(info[1].stretch_start_year)}
    ELSE {Field(o, "stretch_start_year") : o \in peak_stretch_info(df, dur, stat)}

\* Player.peak_end_year(dur, stat)
peak_end_year(info, df, dur, stat) ==
    IF info /= <<>> /\ dur = NoDur THEN {Return(info[1].stretch_end_year)}
    ELSE {Field(o, "stretch_end_year") : o \in peak_stretch_info(df, dur, stat)}

\* A faulty get_counting_stat: the end year is excluded
get_counting_stat_EndExcluded(df, stat, start_year, end_year) ==
    LET range_stats == SelectSeq(df.rows,
                           LAMBDA r : r.Season >= start_year /\ r.Season < end_year)
    IN  IF stat \notin df.columns THEN Raise("KeyError")
        ELSE Return(Sum(Column(range_stats, stat)))

\* Player.get_counting_stat(stat, start_year, end_year)
get_counting_stat(df, stat, start_year, end_year) ==
    LET range_stats == SelectSeq(df.rows,
                           LAMBDA r : r.Season >= start_year /\ r.Season <= end_year)
    IN  IF stat \notin df.columns THEN Raise("KeyError")
        ELSE Return(Sum(Column(range_stats, stat)))

-----------------------------------------------------------------------------
(* class PeakBatter *)

\* max([ab, 1])
MaxOf(a, b) == IF a >= b THEN a ELSE b

\* a / b for b /= 0, kept as the exact fraction
TrueDiv(a, b) == [num |-> a, den |-> b]

\* A faulty free_base_rate: the divisor is not floored at 1
FreeBaseRateOver_NoFloor(df, s, e) ==
    IF Raised(s) THEN s
    ELSE IF Raised(e) THEN e
    ELSE LET bb == get_counting_stat(df, "BB", s.val[1], e.val[1])
             hbp == get_counting_stat(df, "HBP", s.val[1], e.val[1])
             ab == get_counting_stat(df, "AB", s.val[1], e.val[1])
         IN  IF Raised(bb) THEN bb
             ELSE IF Raised(hbp) THEN hbp
             ELSE IF Raised(ab) THEN ab
             ELSE Return(TrueDiv(bb.val[1] + hbp.val[1], ab.val[1]))

\* The body of free_base_rate once peak_start_year() and peak_end_year()
\* have given the outcomes s and e
FreeBaseRateOver(df, s, e) ==
    IF Raised(s) THEN s
    ELSE IF Raised(e) THEN e
    ELSE LET bb == get_counting_stat(df, "BB", s.val[1], e.val[1])
             hbp == get_counting_stat(df, "HBP", s.val[1], e.val[1])
             ab == get_counting_stat(df, "AB", s.val[1], e.val[1])
         IN  IF Raised(bb) THEN bb
             ELSE IF Raised(hbp) THEN hbp
             ELSE IF Raised(ab) THEN ab
             ELSE Return(TrueDiv(bb.val[1] + hbp.val[1], MaxOf(ab.val[1], 1)))

\* PeakBatter.free_base_rate
free_base_rate(info, df) ==
    {FreeBaseRateOver(df, s, e) :
        s \in peak_start_year(info, df, NoDur, "WAR"),
        e \in peak_end_year(info, df, NoDur, "WAR")}

-----------------------------------------------------------------------------
(* Inputs *)

DistinctSeasons(recs) ==
    \A i, j \in 1 .. Len(recs) : recs[i].Season = recs[j].Season => i = j

\* The season tables of one player: at most MaxLen records, in any order,
\* no season twice
Tables(cols, RowSet) ==
    {[columns |-> cols, rows |-> recs] :
        recs \in {s \in UNION {[1 .. k -> RowSet] : k \in 0 .. MaxLen} : DistinctSeasons(s)}}

Durs == {NoDur} \cup {<<d>> : d \in 0 .. (MaxLen + 1)}

StatNames == {"WAR", "HR"}      \* "HR" is not a column of the modelled tables

NoCall == [op |-> "new", dur |-> NoDur, stat |-> "", start_year |-> 0, end_year |-> 0]

Call(op, dur, stat) == [op |-> op, dur |-> dur, stat |-> stat, start_year |-> 0, end_year |-> 0]

CountCall(stat, start_year, end_year) ==
    [op |-> "get_counting_stat", dur |-> NoDur, stat |-> stat,
     start_year |-> start_year, end_year |-> end_year]

------------------------------------------------------------------------\* A subsystem that is not running
NoPlayer ==
    /\ player_stats = [columns |-> {}, rows |-> <<>>]
    /\ peak_info = <<>>
    /\ call = NoCall
    /\ ret = ReturnNone
    /\ pc = "none"

NoBatch ==
    /\ remote = <<>>
    /\ args = <<>>
    /\ year = 0
    /\ stats_by_year = <<>>
    /\ stats = <<>>
    /\ candidates = <<>>
    /\ players = <<>>
    /\ rows = <<>>
    /\ bpc = "none"

NoDice ==
    /\ microstates = <<>>
    /\ macrostates = <<>>
    /\ roll_value_prob_map = <<>>
    /\ dpc = "none"

-----------------------------------------------------------------------------
(* The methods of a Player, as steps *)

PeakValue(dur, stat) ==
    \E r \in peak_value(peak_info, player_stats, dur, stat) :
        /\ call' = Call("peak_value", dur, stat)
        /\ ret' = r
        /\ UNCHANGED <<player_stats, peak_info, batchVars, diceVars>>

PeakStartYear(dur, stat) ==
    \E r \in peak_start_year(peak_info, player_stats, dur, stat) :
        /\ call' = Call("peak_start_year", dur, stat)
        /\ ret' = r
        /\ UNCHANGED <<player_stats, peak_info, batchVars, diceVars>>

PeakEndYear(dur, stat) ==
    \E r \in peak_end_year(peak_info, player_stats, dur, stat) :
        /\ call' = Call("peak_end_year", dur, stat)
        /\ ret' = r
        /\ UNCHANGED <<player_stats, peak_info, batchVars, diceVars>>

GetCountingStat(stat, start_year, end_year) ==
    /\ call' = CountCall(stat, start_year, end_year)
    /\ ret' = get_counting_stat(player_stats, stat, start_year, end_year)
    /\ UNCHANGED <<player_stats, peak_info, batchVars, diceVars>>

SetPeak(dur, stat) ==
    \E o \in set_peak(peak_info, player_stats, dur, stat) :
        /\ call' = Call("set_peak", dur, stat)
        /\ ret' = o.ret
        /\ peak_info' = o.peak_info
        /\ UNCHANGED <<player_stats, batchVars, diceVars>>

-----------------------------------------------------------------------------
(* SpecPeak: one call on a freshly constructed Player.  The table and the  *)
(* call's arguments are the inputs; the step applies the method.           *)

PeakCalls ==
    {Call(op, dur, "WAR") :
        op \in {"peak_value", "peak_start_year", "peak_end_year", "set_peak"},
        dur \in Durs}

InitPeak ==
    /\ player_stats \in Tables({"Season", "WAR"}, [Season : Years, WAR : Vals])
    /\ peak_info = <<>>
    /\ call \in PeakCalls
    /\ ret = Pending
    /\ pc = "call"
    /\ NoBatch /\ NoDice

ApplyPeakValue ==
    /\ pc = "call" /\ call.op = "peak_value"
    /\ PeakValue(call.dur, call.stat)
    /\ pc' = "done"

ApplyPeakStartYear ==
    /\ pc = "call" /\ call.op = "peak_start_year"
    /\ PeakStartYear(call.dur, call.stat)
    /\ pc' = "done"

ApplyPeakEndYear ==
    /\ pc = "call" /\ call.op = "peak_end_year"
    /\ PeakEndYear(call.dur, call.stat)
    /\ pc' = "done"

ApplySetPeak ==
    /\ pc = "call" /\ call.op = "set_peak"
    /\ SetPeak(call.dur, call.stat)
    /\ pc' = "done"

NextPeak ==
    \/ ApplyPeakValue
    \/ ApplyPeakStartYear
    \/ ApplyPeakEndYear
    \/ ApplySetPeak

SpecPeak == InitPeak /\ [][NextPeak]_vars

-----------------------------------------------------------------------------
(* SpecCount: one get_counting_stat call on a Player *)

InitCount ==
    /\ player_stats \in Tables({"Season", "WAR"}, [Season : Years, WAR : Vals])
    /\ peak_info = <<>>
    /\ call \in {CountCall(stat, s, e) : stat \in StatNames, s \in Years, e \in Years}
    /\ ret = Pending
    /\ pc = "call"
    /\ NoBatch /\ NoDice

ApplyGetCountingStat ==
    /\ pc = "call" /\ call.op = "get_counting_stat"
    /\ GetCountingStat(call.stat, call.start_year, call.end_year)
    /\ pc' = "done"

NextCount == ApplyGetCountingStat

SpecCount == InitCount /\ [][NextCount]_vars

-----------------------------------------------------------------------------
(* Spec: the life of one Player object, whose table holds the seasons      *)
(* 1, 2, ... in order; any method may be called at any time.               *)

Init ==
    /\ player_stats \in
          {t \in Tables({"Season", "WAR"}, [Season : Years, WAR : Vals]) :
              \A i \in 1 .. Len(t.rows) : t.rows[i].Season = i}
    /\ peak_info = <<>>
    /\ call = NoCall
    /\ ret = ReturnNone
    /\ pc = "done"
    /\ NoBatch /\ NoDice

CallSetPeak ==
    \E dur \in Durs, stat \in StatNames : SetPeak(dur, stat) /\ UNCHANGED pc

CallPeakValue ==
    \E dur \in Durs, stat \in StatNames : PeakValue(dur, stat) /\ UNCHANGED pc

CallPeakStartYear ==
    \E dur \in Durs, stat \in StatNames : PeakStartYear(dur, stat) /\ UNCHANGED pc

CallPeakEndYear ==
    \E dur \in Durs, stat \in StatNames : PeakEndYear(dur, stat) /\ UNCHANGED pc

Next == CallSetPeak \/ CallPeakValue \/ CallPeakStartYear \/ CallPeakEndYear

Spec == Init /\ [][Next]_vars

-----------------------------------------------------------------------------
(* SpecBatter: a PeakBatter is constructed, then its free_base_rate is     *)
(* read.  Its table holds the seasons 1, 2, ... in order.                  *)

\* The walks, hit-by-pitches and at-bats of one season
BatLines ==
    {[BB |-> 0, HBP |-> 0, AB |-> 0], [BB |-> 1, HBP |-> 0, AB |-> 0],
     [BB |-> 0, HBP |-> 1, AB |-> 2], [BB |-> 2, HBP |-> 1, AB |-> 3]}

InitBatter ==
    /\ \E k \in 0 .. MaxLen :
          \E w \in [1 .. k -> Vals], l \in [1 .. k -> BatLines] :
              player_stats =
                  [columns |-> {"Season", "WAR", "BB", "HBP", "AB"},
                   rows |-> [i \in 1 .. k |->
                                [Season |-> i, WAR |-> w[i], BB |-> l[i].BB,
                                 HBP |-> l[i].HBP, AB |-> l[i].AB]]]
    /\ peak_info = <<>>
    /\ call \in {Call("__init__", <<d>>, "WAR") : d \in 0 .. (MaxLen + 1)}
    /\ ret = Pending
    /\ pc = "new"
    /\ NoBatch /\ NoDice

\* PeakBatter.__init__(player_name, player_stats, peak_dur, peak_stat): the
\* object exists ("ready") unless set_peak raises
PeakBatterInit ==
    /\ pc = "new"
    /\ \E o \in set_peak(<<>>, player_stats, call.dur, call.stat) :
          /\ ret' = o.ret
          /\ peak_info' = o.peak_info
          /\ pc' = IF Raised(o.ret) THEN "failed" ELSE "ready"
    /\ UNCHANGED <<player_stats, call, batchVars, diceVars>>

FreeBaseRate ==
    /\ pc = "ready"
    /\ call' = Call("free_base_rate", NoDur, "")
    /\ ret' \in free_base_rate(peak_info, player_stats)
    /\ pc' = "done"
    /\ UNCHANGED <<player_stats, peak_info, batchVars, diceVars>>

NextBatter == PeakBatterInit \/ FreeBaseRate

SpecBatter == InitBatter /\ [][NextBatter]_vars

-----------------------------------------------------------------------------
(* load_player_peaks (gather_player_peaks.py) *)

MaxRows == 2    \* most rows of one year's table of the statistics service

Names == <<"a", "b">>       \* the player names, in lexicographic order

LoadedYears == 1 .. (MaxLen - 1)

BatchColumns == {"Name", "Season", "WAR"}

\* The tables the service may return for year y: a row per player-season;
\* two players may bear the same name
YearTables(y) ==
    UNION {[1 .. k -> [Name : Range(Names), Season : {y}, WAR : Vals]] : k \in 0 .. MaxRows}

\* pd.concat(stats_by_year).reset_index(drop=True)
RECURSIVE Concat(_)
Concat(tables) == IF tables = <<>> THEN <<>> ELSE Head(tables) \o Concat(Tail(tables))

\* stats["Name"].value_counts(): the number of rows bearing the name
ValueCount(table, name) == Len(SelectSeq(table, LAMBDA r : r.Name = name))

\* sorted(list(set(career_durations[career_durations["Seasons"] >= dur]["Name"].values)))
Candidates(table, dur) ==
    SelectSeq(Names, LAMBDA n : ValueCount(table, n) >= 1 /\ ValueCount(table, n) >= dur)

\* Where load_player_peaks goes on once candidates, players and rows are these
Stage(c, p, r) ==
    IF Len(p) < Len(c) THEN "players"
    ELSE IF Len(r) < Len(p) THEN "rows"
    ELSE "return"

InitBatch ==
    /\ args \in [start_year : LoadedYears, end_year : LoadedYears, dur : 1 .. (MaxLen - 1),
                 category : {"batters", "pitchers"}]
    /\ remote \in [LoadedYears -> UNION {YearTables(y) : y \in LoadedYears}]
    /\ \A y \in LoadedYears : remote[y] \in YearTables(y)
    /\ year = args.start_year
    /\ stats_by_year = <<>>
    /\ stats = <<>>
    /\ candidates = <<>>
    /\ players = <<>>
    /\ rows = <<>>
    /\ bpc = "load"
    /\ NoPlayer /\ NoDice

\* _load_batting_stats: one turn of its loop
LoadBattingStats ==
    /\ bpc = "load" /\ args.category = "batters"
    /\ year <= args.end_year
    /\ stats_by_year' = Append(stats_by_year, remote[year])
    /\ year' = year + 1
    /\ UNCHANGED <<remote, args, stats, candidates, players, rows, bpc, playerVars, diceVars>>

\* _load_pitching_stats: one turn of its loop
LoadPitchingStats ==
    /\ bpc = "load" /\ args.category = "pitchers"
    /\ year <= args.end_year
    /\ stats_by_year' = Append(stats_by_year, remote[year])
    /\ year' = year + 1
    /\ UNCHANGED <<remote, args, stats, candidates, players, rows, bpc, playerVars, diceVars>>

\* The loader's pd.concat, which raises on an empty list, then the candidates
ConcatAndSelect ==
    /\ bpc = "load"
    /\ year > args.end_year
    /\ IF stats_by_year = <<>>
       THEN /\ bpc' = "raised"
            /\ UNCHANGED <<stats, candidates>>
       ELSE /\ stats' = Concat(stats_by_year)
            /\ candidates' = Candidates(stats', args.dur)
            /\ bpc' = Stage(candidates', players, rows)
    /\ UNCHANGED <<remote, args, year, stats_by_year, players, rows, playerVars, diceVars>>

\* One turn of the loop that builds a Player per candidate
MakePlayer ==
    /\ bpc = "players"
    /\ LET player == candidates[Len(players) + 1]
       IN  \E sorted \in SortValues(SelectSeq(stats, LAMBDA r : r.Name = player)) :
               players' = Append(players,
                                 [player_name |-> player,
                                  player_stats |-> [columns |-> BatchColumns, rows |-> sorted],
                                  peak_info |-> <<>>])
    /\ bpc' = Stage(candidates, players', rows)
    /\ UNCHANGED <<remote, args, year, stats_by_year, stats, candidates, rows, playerVars,
                   diceVars>>

\* One turn of the loop that builds a summary record per player
MakeRow ==
    /\ bpc = "rows"
    /\ LET player == players[Len(rows) + 1]
       IN  \E v \in peak_value(player.peak_info, player.player_stats, <<args.dur>>, "WAR"),
              s \in peak_start_year(player.peak_info, player.player_stats, <<args.dur>>, "WAR"),
              e \in peak_end_year(player.peak_info, player.player_stats, <<args.dur>>, "WAR") :
               IF Raised(v) \/ Raised(s) \/ Raised(e)
               THEN bpc' = "raised" /\ UNCHANGED rows
               ELSE /\ rows' = Append(rows,
                                      [player_name |-> player.player_name,
                                       peak_value |-> v.val[1],
                                       peak_start_year |-> s.val[1],
                                       peak_end_year |-> e.val[1]])
                    /\ bpc' = Stage(candidates, players, rows')
    /\ UNCHANGED <<remote, args, year, stats_by_year, stats, candidates, players, playerVars,
                   diceVars>>

\* return pd.DataFrame(rows)
ReturnFrame ==
    /\ bpc = "return"
    /\ bpc' = "done"
    /\ UNCHANGED <<remote, args, year, stats_by_year, stats, candidates, players, rows,
                   playerVars, diceVars>>

NextBatch ==
    \/ LoadBattingStats
    \/ LoadPitchingStats
    \/ ConcatAndSelect
    \/ MakePlayer
    \/ MakeRow
    \/ ReturnFrame

SpecBatch == InitBatch /\ [][NextBatch]_vars

-----------------------------------------------------------------------------
(* dice.py *)

\* A faulty roll value: the second ones die is left out
calc_roll_value_NoSecondDie(t, a, b) == (10 * t) + a

calc_roll_value(t, a, b) == (10 * t) + a + b

tens_die_sides == <<1, 2, 2, 3, 3, 3>>

small_ones_die_sides == <<0, 0, 1, 2, 3, 4>>

large_ones_die_sides == <<0, 1, 2, 3, 4, 5>>

\* The number of (t, a, b) triples of the comprehension
Triples == Len(tens_die_sides) * Len(small_ones_die_sides) * Len(large_ones_die_sides)

\* sorted(list(set(values)))
RECURSIVE SortedList(_)
SortedList(S) ==
    IF S = {} THEN <<>>
    ELSE LET m == CHOOSE x \in S : \A y \in S : x <= y
         IN  <<m>> \o SortedList(S \ {m})

\* len([mic for mic in microstates if mic == mac]) / len(microstates)
Probability(mics, mac) == TrueDiv(Len(SelectSeq(mics, LAMBDA mic : mic = mac)), Len(mics))

InitDice ==
    /\ microstates = <<>>
    /\ macrostates = <<>>
    /\ roll_value_prob_map = <<>>
    /\ dpc = "microstates"
    /\ NoPlayer /\ NoBatch

\* One element of the comprehension over t, a and b (b varies fastest)
AppendMicrostate ==
    /\ dpc = "microstates"
    /\ LET k == Len(microstates)
           nb == Len(large_ones_die_sides)
           na == Len(small_ones_die_sides)
           t == tens_die_sides[(k \div (na * nb)) + 1]
           a == small_ones_die_sides[((k \div nb) % na) + 1]
           b == large_ones_die_sides[(k % nb) + 1]
       IN  microstates' = Append(microstates, calc_roll_value(t, a, b))
    /\ dpc' = IF Len(microstates') = Triples THEN "macrostates" ELSE "microstates"
    /\ UNCHANGED <<macrostates, roll_value_prob_map, playerVars, batchVars>>

SortMacrostates ==
    /\ dpc = "macrostates"
    /\ macrostates' = SortedList(Range(microstates))
    /\ dpc' = "map"
    /\ UNCHANGED <<microstates, roll_value_prob_map, playerVars, batchVars>>

BuildProbMap ==
    /\ dpc = "map"
    /\ roll_value_prob_map' =
          [mac \in Range(macrostates) |-> Probability(microstates, mac)]
    /\ dpc' = "done"
    /\ UNCHANGED <<microstates, macrostates, playerVars, batchVars>>

NextDice == AppendMicrostate \/ SortMacrostates \/ BuildProbMap

SpecDice == InitDice /\ [][NextDice]_vars

-----------------------------------------------------------------------------
(* What the claims speak of, stated without the operators of the model *)

\* The records in ascending season order, for records of distinct seasons
Ascending(recs) ==
    [i \in 1 .. Len(recs) |->
        CHOOSE r \in Range(recs) :
            Cardinality({q \in Range(recs) : q.Season < r.Season}) = i - 1]

\* The sum of the statistic over the d records from position i on
RECURSIVE WindowSum(_, _, _, _)
WindowSum(sorted, stat, i, d) ==
    IF d = 0 THEN 0 ELSE sorted[i][stat] + WindowSum(sorted, stat, i + 1, d - 1)

\* The first position whose window of length d has the largest sum
FirstBest(sorted, stat, d) ==
    CHOOSE i \in 1 .. (Len(sorted) - d + 1) :
        /\ \A k \in 1 .. (Len(sorted) - d + 1) :
              WindowSum(sorted, stat, k, d) <= WindowSum(sorted, stat, i, d)
        /\ \A k \in 1 .. (i - 1) :
              WindowSum(sorted, stat, k, d) < WindowSum(sorted, stat, i, d)

Queries == {"peak_value", "peak_start_year", "peak_end_year"}

FieldOf(op) ==
    CASE op = "peak_value" -> "stretch_value"
      [] op = "peak_start_year" -> "stretch_start_year"
      [] op = "peak_end_year" -> "stretch_end_year"

\* A peak method has run with a duration d, 1 <= d <= n, on an existing column
ValidPeakCall ==
    /\ pc = "done"
    /\ call.op \in Queries \cup {"set_peak"}
    /\ call.dur /= NoDur
    /\ call.dur[1] >= 1 /\ call.dur[1] <= Len(player_stats.rows)
    /\ call.stat \in player_stats.columns

-----------------------------------------------------------------------------
(* C1: for a series of n seasons and a duration d, 1 <= d <= n, the value  *)
(* the peak finder returns is the largest sum of d consecutive seasons (in *)
(* season order), and the window it reports starts at the first position   *)
(* whose window has that sum.                                              *)
C1_FirstMaximalWindow ==
    ValidPeakCall =>
        LET sorted == Ascending(player_stats.rows)
            d == call.dur[1]
            i == FirstBest(sorted, call.stat, d)
        IN  /\ call.op = "peak_value" =>
                ret = Return(WindowSum(sorted, call.stat, i, d))
            /\ call.op = "peak_start_year" => ret = Return(sorted[i].Season)
            /\ call.op = "set_peak" =>
                /\ peak_info /= <<>>
                /\ peak_info[1].stretch_value = WindowSum(sorted, call.stat, i, d)
                /\ peak_info[1].stretch_start_year = sorted[i].Season

\* A later window ties with the first maximal one, and the first is reported
C1_Witness ==
    /\ ValidPeakCall
    /\ call.op = "peak_start_year"
    /\ LET sorted == Ascending(player_stats.rows)
           d == call.dur[1]
           i == FirstBest(sorted, call.stat, d)
       IN  /\ i > 1
           /\ \E k \in (i + 1) .. (Len(sorted) - d + 1) :
                 WindowSum(sorted, call.stat, k, d) = WindowSum(sorted, call.stat, i, d)
           /\ ret = Return(sorted[i].Season)

(* C2: the end year of the peak is the season d - 1 positions after the    *)
(* start year's position in season order; it is start_year + d - 1 when    *)
(* the seasons of the window are consecutive integers.                     *)
C2_PositionBasedEndYear ==
    (pc = "done" /\ call.op = "set_peak" /\ peak_info /= <<>>) =>
        LET sorted == Ascending(player_stats.rows)
            info == peak_info[1]
            d == info.stretch_duration
            i == CHOOSE k \in 1 .. Len(sorted) : sorted[k].Season = info.stretch_start_year
        IN  /\ i + d - 1 <= Len(sorted)
            /\ info.stretch_end_year = sorted[i + d - 1].Season
            /\ (\A j \in i .. (i + d - 2) : sorted[j + 1].Season = sorted[j].Season + 1)
                   => info.stretch_end_year = info.stretch_start_year + d - 1

\* A peak over seasons with a gap: the end year is not start_year + d - 1
C2_Witness ==
    /\ pc = "done" /\ call.op = "set_peak" /\ peak_info /= <<>>
    /\ peak_info[1].stretch_duration >= 2
    /\ peak_info[1].stretch_end_year /=
          peak_info[1].stretch_start_year + peak_info[1].stretch_duration - 1

\* The outcomes of a call on a freshly constructed Player with table df
Outcomes(df, c) ==
    CASE c.op = "peak_value" ->
            {[ret |-> r, peak_info |-> <<>>] : r \in peak_value(<<>>, df, c.dur, c.stat)}
      [] c.op = "peak_start_year" ->
            {[ret |-> r, peak_info |-> <<>>] : r \in peak_start_year(<<>>, df, c.dur, c.stat)}
      [] c.op = "peak_end_year" ->
            {[ret |-> r, peak_info |-> <<>>] : r \in peak_end_year(<<>>, df, c.dur, c.stat)}
      [] c.op = "set_peak" -> set_peak(<<>>, df, c.dur, c.stat)

(* C8: for records of distinct seasons and a duration in range, the peak   *)
(* finder's result on the records in any order is its result on the        *)
(* records in ascending season order.                                      *)
C8_SortInvariance ==
    ValidPeakCall =>
        Outcomes([player_stats EXCEPT !.rows = Ascending(player_stats.rows)], call)
            = {[ret |-> ret, peak_info |-> peak_info]}

\* The end year of a peak was asked of three records given out of season order
C8_Witness ==
    /\ ValidPeakCall
    /\ call.op = "peak_end_year"
    /\ Len(player_stats.rows) >= 3
    /\ player_stats.rows[1].Season > player_stats.rows[2].Season
    /\ ~ Raised(ret)

-----------------------------------------------------------------------------
RECURSIVE SumOfIndices(_, _, _)
SumOfIndices(recs, stat, I) ==
    IF I = {} THEN 0
    ELSE LET i == CHOOSE k \in I : TRUE
         IN  recs[i][stat] + SumOfIndices(recs, stat, I \ {i})

InRange(recs, lo, hi) == {i \in 1 .. Len(recs) : lo <= recs[i].Season /\ recs[i].Season <= hi}

-----------------------------------------------------------------------------
\* The duration of a query is out of range: < 1, more than the seasons, or
\* omitted with no peak set
BadDuration ==
    \/ call.dur = NoDur /\ peak_info = <<>>
    \/ call.dur /= NoDur /\ (call.dur[1] < 1 \/ call.dur[1] > Len(player_stats.rows))

(* C3: a peak query whose duration is < 1 or more than the player's        *)
(* seasons, or is omitted when no peak is set, raises: it returns no       *)
(* value, start year or end year.                                          *)
C3_BadDurationRaises ==
    (call.op \in Queries /\ BadDuration) => (Raised(ret) /\ ret.val = <<>>)

\* The value of a peak one season longer than the series was asked
C3_Witness ==
    /\ call.op = "peak_value"
    /\ call.stat = "WAR"
    /\ Len(player_stats.rows) >= 2
    /\ call.dur = <<Len(player_stats.rows) + 1>>
    /\ Raised(ret)

\* The query supplies a duration/statistic pair other than the cached one
NewPair(c, info) ==
    \/ c.dur /= NoDur /\ <<c.dur[1], c.stat>> /= <<info.stretch_duration, info.stretch_stat>>
    \/ c.dur = NoDur /\ c.stat /= info.stretch_stat

(* C4: once a query has supplied a duration/statistic pair other than the  *)
(* cached one, a query that omits the duration does not return the cached  *)
(* window.                                                                 *)
C4_CacheInvalidated ==
    [][(/\ call.op \in Queries
        /\ ~ Raised(ret)
        /\ peak_info /= <<>>
        /\ NewPair(call, peak_info[1])
        /\ call'.op \in Queries
        /\ call'.dur = NoDur)
       => ret' /= Return(peak_info[1][FieldOf(call'.op)])]_vars

C9_Cached ==
    peak_info /= <<>> =>
        /\ Return(peak_info[1]) \in
              peak_stretch_info(player_stats, <<peak_info[1].stretch_duration>>,
                                peak_info[1].stretch_stat)
        /\ (call.op \in Queries /\ call.dur = NoDur) =>
              ret = Return(peak_info[1][FieldOf(call.op)])

C9_OnlySetPeakWrites ==
    [][peak_info' /= peak_info =>
          /\ call'.op = "set_peak"
          /\ call'.dur /= NoDur
          /\ peak_info' /= <<>>
          /\ peak_info'[1].stretch_duration = call'.dur[1]
          /\ peak_info'[1].stretch_stat = call'.stat]_vars

-----------------------------------------------------------------------------
(* C10: free_base_rate is (BB + HBP) / max(AB, 1), each the sum of the     *)
(* statistic over the seasons within the start and end year of the peak    *)
(* cached at construction; when AB sums to 0 the divisor is 1 and the      *)
(* result is BB + HBP, with no error.                                      *)
C10_FreeBaseRate ==
    (pc = "done" /\ call.op = "free_base_rate") =>
        LET info == peak_info[1]
            I == InRange(player_stats.rows, info.stretch_start_year, info.stretch_end_year)
            BB == SumOfIndices(player_stats.rows, "BB", I)
            HBP == SumOfIndices(player_stats.rows, "HBP", I)
            AB == SumOfIndices(player_stats.rows, "AB", I)
        IN  /\ ~ Raised(ret)
            /\ ret.val[1].num = BB + HBP
            /\ ret.val[1].den = (IF AB >= 1 THEN AB ELSE 1)
            /\ AB = 0 => ret = Return([num |-> BB + HBP, den |-> 1])

\* The at-bats of the peak sum to 0, its walks and hit-by-pitches do not, and
\* a season outside the peak has at-bats
C10_Witness ==
    /\ pc = "done" /\ call.op = "free_base_rate"
    /\ LET info == peak_info[1]
           I == InRange(player_stats.rows, info.stretch_start_year, info.stretch_end_year)
       IN  /\ Cardinality(I) = 2
           /\ Len(player_stats.rows) = 3
           /\ SumOfIndices(player_stats.rows, "AB", I) = 0
           /\ SumOfIndices(player_stats.rows, "AB", 1 .. 3) > 0
           /\ ret = Return([num |-> 2, den |-> 1])

-----------------------------------------------------------------------------
\* The rows of the loaded table that bear the name
RowsOf(name) == SelectSeq(stats, LAMBDA r : r.Name = name)

(* C5: load_player_peaks emits exactly one record for each player with at  *)
(* least dur distinct seasons in the loaded table and none for any other   *)
(* player, and each record holds the peak finder's result for that         *)
(* player's rows alone.                                                    *)
C5_OneRecordPerLongCareer ==
    bpc = "done" =>
        \A n \in Range(Names) :
            LET seasons == {r.Season : r \in Range(RowsOf(n))}
                mine == {i \in 1 .. Len(rows) : rows[i].player_name = n}
            IN  /\ Cardinality(mine) = (IF Cardinality(seasons) >= args.dur THEN 1 ELSE 0)
                /\ \A i \in mine :
                      \E o \in peak_stretch_info([columns |-> BatchColumns, rows |-> RowsOf(n)],
                                                 <<args.dur>>, "WAR") :
                          /\ ~ Raised(o)
                          /\ rows[i].peak_value = o.val[1].stretch_value
                          /\ rows[i].peak_start_year = o.val[1].stretch_start_year
                          /\ rows[i].peak_end_year = o.val[1].stretch_end_year

-----------------------------------------------------------------------------
\* The (t, a, b) positions of the three dice
FacePositions ==
    (DOMAIN tens_die_sides) \X (DOMAIN small_ones_die_sides) \X (DOMAIN large_ones_die_sides)

ValueAt(p) == 10 * tens_die_sides[p[1]] + small_ones_die_sides[p[2]] + large_ones_die_sides[p[3]]

RECURSIVE SumOfCounts(_, _)
SumOfCounts(m, K) ==
    IF K = {} THEN 0
    ELSE LET k == CHOOSE x \in K : TRUE
         IN  m[k].num + SumOfCounts(m, K \ {k})

\* The keys are the values of the triples, each mapped to its share of them
ExactDistribution ==
    LET keys == DOMAIN roll_value_prob_map
    IN  /\ Cardinality(FacePositions) = 216
        /\ keys = {ValueAt(p) : p \in FacePositions}
        /\ \A k \in keys :
              roll_value_prob_map[k] =
                  [num |-> Cardinality({p \in FacePositions : ValueAt(p) = k}), den |-> 216]
        /\ SumOfCounts(roll_value_prob_map, keys) = 216

\* The smallest key is lo and the largest hi, both with positive probability
KeysSpan(lo, hi) ==
    LET keys == DOMAIN roll_value_prob_map
    IN  /\ lo \in keys /\ hi \in keys
        /\ \A k \in keys : lo <= k /\ k <= hi
        /\ roll_value_prob_map[lo].num > 0 /\ roll_value_prob_map[hi].num > 0

(* C7, as claimed: the keys of the returned map are exactly the values     *)
(* 10*t + a + b of the 216 triples, each mapped to (triples giving it) /   *)
(* 216; the counts add up to 216; the smallest key is 10 and the largest   *)
(* 35, both with positive probability.                                     *)
C7_Original_LargestIs35 ==
    dpc = "done" => (ExactDistribution /\ KeysSpan(10, 35))

(* C7, amended: as claimed, except that the largest key is 39 (t = 3,      *)
(* a = 4, b = 5 give 30 + 4 + 5); 35 is a key of positive probability but  *)
(* not the largest.                                                        *)
C7_RollValueProbs ==
    dpc = "done" =>
        /\ ExactDistribution
        /\ KeysSpan(10, 39)
        /\ 35 \in DOMAIN roll_value_prob_map /\ roll_value_prob_map[35].num > 0

\* The map is built: 2 of the 216 triples give 10 and 3 give 39
C7_Witness ==
    /\ dpc = "done"
    /\ roll_value_prob_map[10] = [num |-> 2, den |-> 216]
    /\ roll_value_prob_map[39] = [num |-> 3, den |-> 216]
    /\ macrostates[1] = 10 /\ macrostates[Len(macrostates)] = 39

====
